---- MODULE Spec2Model ----
(***************************************************************************)
(* A model of pswalker: the iterative two-mirror walker                    *)
(* (pswalker/walker/iterwalk.py) and the command-and-control dispatcher    *)
(* (pswalker/skywalker.py).                                                *)
(*                                                                         *)
(* Numbers.  The source computes with floats.  The model computes on the   *)
(* integer grid: every device value is an integer, numpy's sqrt is the     *)
(* integer square root and "/" rounds to the grid (floor).  A float that   *)
(* is inf or nan (numpy returns these, with a RuntimeWarning, for a zero   *)
(* divisor or a negative radicand; it raises nothing) is the one value     *)
(* NonFinite.  An angle is therefore a record [fin, v].                    *)
(***************************************************************************)
EXTENDS Integers, Sequences, FiniteSets, TLC

VARIABLES
    source,     \* the source device: [x, xp]
    mirror_1,   \* mirror 1: [x, z, alpha]
    mirror_2,   \* mirror 2: [x, z, alpha]
    imager_1,   \* imager 1: [x, z, image_xsz, mppix, centroid]
    imager_2,   \* imager 2: [x, z, image_xsz, mppix, centroid]
    walker,     \* the IterWalker object: [p1, p2, tan, max_n, alpha_1, alpha_2]
    built,      \* the angle pair the IterWalker was constructed with
    frame,      \* the IterWalker call in progress, or the last one made
    trace,      \* the solves and device writes of that call, in order
    sky,        \* the Skywalker object
    globals,    \* the names bound in module pswalker.skywalker
    monitor,    \* the monitor's current_centroids
    skcall,     \* the last Skywalker.walk call: its arguments, outcome and calls
    probe       \* the last direct call of alpha1 / alpha2

iwvars  == <<source, mirror_1, mirror_2, imager_1, imager_2, walker, built, frame, trace>>
skyvars == <<sky, globals, monitor, skcall>>
vars    == <<source, mirror_1, mirror_2, imager_1, imager_2, walker, built, frame, trace,
             sky, globals, monitor, skcall, probe>>

---------------------------------------------------------------------------
(* Bounds of the model *)

\* the largest iteration budget max_n an IterWalker is constructed with
MaxN == 2

\* the largest |value| of an input of a direct alpha1 / alpha2 call
MaxProbe == 1

\* the number of IterWalker calls in a run
MaxCalls == 2

---------------------------------------------------------------------------
(* Values *)

Fin(v)    == [fin |-> TRUE, v |-> v]
NonFinite == [fin |-> FALSE, v |-> 0]

\* Python's None for a target pixel, and a given pixel
NoneP    == [some |-> FALSE, v |-> 0]
SomeP(v) == [some |-> TRUE, v |-> v]

\* the outcome of a call: a value, or an exception
Value(v)   == [exc |-> "none", val |-> v]
Raise(e)   == [exc |-> e, val |-> NonFinite]

\* numpy.sqrt on the grid, for n >= 0
ISqrt(n) == CHOOSE r \in 0..n : r * r <= n /\ n < (r + 1) * (r + 1)

\* what sympy.nsolve may do from its fixed seed: return a root, or fail
NsolveOutcomes == { Value(Fin(1)), Raise("SolverError") }

---------------------------------------------------------------------------
(* iterwalk.py: the geometry solver *)

\* the radicand of alpha1's closed form
alpha1_disc(x0, xp0, a2, d2, d4, d5, m1hdx, m2hdx, x) ==
      a2*a2*d2*d2 - 8*a2*a2*d2*d4 + 6*a2*a2*d2*d5
    + 8*a2*a2*d4*d4 - 8*a2*a2*d4*d5 + a2*a2*d5*d5
    - 4*a2*d2*d4*xp0 + 4*a2*d2*d5*xp0 + 2*a2*d2*m2hdx
    - 2*a2*d2*x + 8*a2*d4*m1hdx - 8*a2*d4*m2hdx + 4*a2*d4*x
    - 4*a2*d4*x0 - 8*a2*d5*m1hdx + 6*a2*d5*m2hdx - 2*a2*d5*x
    + 4*a2*d5*x0 + m2hdx*m2hdx - 2*m2hdx*x + x*x

\* the terms of alpha1's closed form outside the square root
alpha1_lin(x0, xp0, a2, d2, d4, d5, m1hdx, m2hdx, x) ==
    -a2*d2 + 4*a2*d4 - 3*a2*d5 + 2*d4*xp0 - 2*d5*xp0 - m2hdx + x

\* float division of a numpy float by a Python number: a zero divisor gives
\* inf or nan, a nan dividend gives nan
NpDivide(num, den) ==
    IF ~num.fin \/ den = 0 THEN NonFinite ELSE Fin(num.v \div den)

\* numpy.sqrt: nan for a negative argument
NpSqrt(n) == IF n < 0 THEN NonFinite ELSE Fin(ISqrt(n))

\* a Python number plus or minus a numpy float
NpMinus(a, b) == IF b.fin THEN Fin(a - b.v) ELSE NonFinite
NpPlus(a, b)  == IF b.fin THEN Fin(a + b.v) ELSE NonFinite

\* alpha1's closed form, the branch "t is False": a2 is an angle; a nan or inf
\* a2 makes every term nan or inf
alpha1_closed(x0, xp0, a2, d2, d4, d5, m1hdx, m2hdx, x) ==
    IF ~a2.fin
    THEN NonFinite
    ELSE NpDivide(
             NpMinus(alpha1_lin(x0, xp0, a2.v, d2, d4, d5, m1hdx, m2hdx, x),
                     NpSqrt(alpha1_disc(x0, xp0, a2.v, d2, d4, d5, m1hdx, m2hdx, x))),
             4 * (d4 - d5))

\* an alpha1 whose division is Python's own, which raises on a zero divisor
alpha1_python_division(x0, xp0, a2, d2, d4, d5, m1hdx, m2hdx, x, t, root) ==
    IF t = FALSE
    THEN IF d4 = d5
         THEN Raise("ZeroDivisionError")
         ELSE Value(alpha1_closed(x0, xp0, a2, d2, d4, d5, m1hdx, m2hdx, x))
    ELSE root

\* alpha1(x0, xp0, a2, d2, d4, d5, m1hdx, m2hdx, x, t): root is what nsolve
\* does in the branch "t is True"
alpha1(x0, xp0, a2, d2, d4, d5, m1hdx, m2hdx, x, t, root) ==
    IF t = FALSE
    THEN Value(alpha1_closed(x0, xp0, a2, d2, d4, d5, m1hdx, m2hdx, x))
    ELSE root

\* the radicand of alpha2's closed form
alpha2_disc(x0, xp0, a1, d2, d4, d6, m1hdx, m2hdx, x) ==
      4*a1*a1*d2*d2 - 32*a1*a1*d2*d4 + 24*a1*a1*d2*d6
    + 32*a1*a1*d4*d4 - 32*a1*a1*d4*d6 + 4*a1*a1*d6*d6
    + 16*a1*d2*d4*xp0 - 12*a1*d2*d6*xp0 - 8*a1*d2*m1hdx
    + 4*a1*d2*x + 4*a1*d2*x0 - 32*a1*d4*d4*xp0
    + 32*a1*d4*d6*xp0 + 32*a1*d4*m1hdx - 16*a1*d4*m2hdx
    - 16*a1*d4*x0 - 4*a1*d6*d6*xp0 - 24*a1*d6*m1hdx
    + 16*a1*d6*m2hdx - 4*a1*d6*x + 12*a1*d6*x0 + 8*d4*d4*xp0*xp0
    - 8*d4*d6*xp0*xp0 - 16*d4*m1hdx*xp0 + 8*d4*m2hdx*xp0
    + 8*d4*x0*xp0 + d6*d6*xp0*xp0 + 12*d6*m1hdx*xp0
    - 8*d6*m2hdx*xp0 + 2*d6*x*xp0 - 6*d6*x0*xp0 + 4*m1hdx*m1hdx
    - 4*m1hdx*x - 4*m1hdx*x0 + x*x + 2*x*x0 + x0*x0

\* the terms of alpha2's closed form outside the square root
alpha2_lin(x0, xp0, a1, d2, d4, d6, m1hdx, m2hdx, x) ==
    -2*a1*d2 + 8*a1*d4 - 6*a1*d6 - 4*d4*xp0 + 3*d6*xp0 + 2*m1hdx - x - x0

\* alpha2's closed form, the branch "t is False"
alpha2_closed(x0, xp0, a1, d2, d4, d6, m1hdx, m2hdx, x) ==
    IF ~a1.fin
    THEN NonFinite
    ELSE NpDivide(
             NpPlus(alpha2_lin(x0, xp0, a1.v, d2, d4, d6, m1hdx, m2hdx, x),
                    NpSqrt(alpha2_disc(x0, xp0, a1.v, d2, d4, d6, m1hdx, m2hdx, x))),
             4 * (d4 - d6))

\* alpha2(x0, xp0, a1, d2, d4, d6, m1hdx, m2hdx, x, t)
alpha2(x0, xp0, a1, d2, d4, d6, m1hdx, m2hdx, x, t, root) ==
    IF t = FALSE
    THEN Value(alpha2_closed(x0, xp0, a1, d2, d4, d6, m1hdx, m2hdx, x))
    ELSE root

---------------------------------------------------------------------------
(* iterwalk.py: IterWalker *)

\* the goal_x_1 / goal_x_2 properties: a target pixel of None makes the
\* subtraction raise TypeError.  image_xsz is even in the model, so that
\* image_xsz/2 is on the grid
goal_x(imager, p) ==
    IF ~p.some
    THEN Raise("TypeError")
    ELSE Value(Fin(imager.x + (p.v - imager.image_xsz \div 2 + 1) * imager.mppix))

goal_x_1(self) == goal_x(imager_1, self.p1)
goal_x_2(self) == goal_x(imager_2, self.p2)

\* _get_d(imager, pos_pix_inp), behind the d1 / d2 properties
get_d(imager, p) ==
    IF ~p.some
    THEN Raise("TypeError")
    ELSE Value(Fin((imager.centroid - p.v) * imager.mppix))

\* distance(p1, p2) of two points <<x, y>>: numpy.linalg.norm(p2 - p1)
distance(p, q) ==
    ISqrt((q[1] - p[1]) * (q[1] - p[1]) + (q[2] - p[2]) * (q[2] - p[2]))

\* _alpha_1_calc: it reads self._alpha_2.  readFails: one of its device
\* reads raises; root: what nsolve does if self.tan
alpha_1_calc(self, readFails, root) ==
    IF readFails THEN Raise("DeviceReadError")
    ELSE IF goal_x_1(self).exc # "none" THEN goal_x_1(self)
    ELSE alpha1(source.x, source.xp, self.alpha_2,
                mirror_1.z, mirror_2.z, imager_1.z,
                mirror_1.x, mirror_2.x, goal_x_1(self).val.v, self.tan, root)

\* _alpha_2_calc: it reads self._alpha_1
alpha_2_calc(self, readFails, root) ==
    IF readFails THEN Raise("DeviceReadError")
    ELSE IF goal_x_2(self).exc # "none" THEN goal_x_2(self)
    ELSE alpha2(source.x, source.xp, self.alpha_1,
                mirror_1.z, mirror_2.z, imager_2.z,
                mirror_1.x, mirror_2.x, goal_x_2(self).val.v, self.tan, root)

\* step(): the tuple (self._alpha_1_calc(), self._alpha_2_calc()); both
\* calls see the same self.  The result: [exc, ret, evs]
step(self, f1, r1, f2, r2) ==
    LET o1 == alpha_1_calc(self, f1, r1)
        o2 == alpha_2_calc(self, f2, r2)
    IN  IF o1.exc # "none"
        THEN [exc |-> o1.exc, ret |-> <<>>, evs |-> <<[ev |-> "alpha1", out |-> o1]>>]
        ELSE [exc |-> o2.exc,
              ret |-> IF o2.exc = "none" THEN <<o1.val, o2.val>> ELSE <<>>,
              evs |-> <<[ev |-> "alpha1", out |-> o1], [ev |-> "alpha2", out |-> o2]>>]

\* one pass of align's loop body: self._alpha_1 is assigned before
\* _alpha_2_calc runs.  The result: [exc, self, evs]
align_body(self, f1, r1, f2, r2) ==
    LET o1    == alpha_1_calc(self, f1, r1)
        self1 == [self EXCEPT !.alpha_1 = o1.val]
        o2    == alpha_2_calc(self1, f2, r2)
    IN  IF o1.exc # "none"
        THEN [exc |-> o1.exc, self |-> self, evs |-> <<[ev |-> "alpha1", out |-> o1]>>]
        ELSE [exc |-> o2.exc,
              self |-> IF o2.exc = "none" THEN [self1 EXCEPT !.alpha_2 = o2.val] ELSE self1,
              evs |-> <<[ev |-> "alpha1", out |-> o1], [ev |-> "alpha2", out |-> o2]>>]

\* a loop that stops one pass short of the budget
range_done_early(self, i) == i >= self.max_n - 1

\* a loop that tests its budget after the pass: one pass more
range_done_late(self, i) == i > self.max_n

\* "for i in range(self.max_n)": the loop is over after max_n passes
range_done(self, i) == i >= self.max_n

\* a commit that ignores the move argument
move_is_true_always(move) == TRUE

\* "if move is True"
move_is_true(move) == move = TRUE

\* examples.py, Mirror.blocking: the fixture's "still moving" signal; it
\* reports settled whenever it is read
blocking(mirror) == FALSE

\* the frame of a call that is not an align in progress
Frame(op, pc, ret, exc) ==
    [n |-> frame.n + 1, op |-> op, pc |-> pc, i |-> 0, move |-> FALSE,
     ret |-> ret, exc |-> exc,
     pre |-> <<mirror_1.alpha, mirror_2.alpha>>,
     est |-> <<walker.alpha_1, walker.alpha_2>>]

\* no IterWalker call is in progress, and the run may make another
Idle == frame.pc \in {"idle", "returned", "raised"} /\ frame.n < MaxCalls

\* step()
Step ==
    /\ Idle
    /\ \E f1 \in BOOLEAN, f2 \in BOOLEAN, r1 \in NsolveOutcomes, r2 \in NsolveOutcomes :
          LET r == step(walker, f1, r1, f2, r2)
          IN  /\ frame' = Frame("step", IF r.exc = "none" THEN "returned" ELSE "raised",
                                r.ret, r.exc)
              /\ trace' = r.evs
    /\ UNCHANGED <<source, mirror_1, mirror_2, imager_1, imager_2, walker, built>>
    /\ UNCHANGED <<skyvars, probe>>

\* distance(p1, p2)
Distance ==
    /\ Idle
    /\ \E p \in {<<0, 0>>}, q \in {<<3, 4>>, <<1, 1>>} :
          frame' = Frame("distance", "returned", <<Fin(distance(p, q))>>, "none")
    /\ trace' = <<>>
    /\ UNCHANGED <<source, mirror_1, mirror_2, imager_1, imager_2, walker, built>>
    /\ UNCHANGED <<skyvars, probe>>

\* a read of the goal_x_1, goal_x_2, d1 or d2 property
ReadProperty ==
    /\ Idle
    /\ \E name \in {"goal_x_1", "goal_x_2", "d1", "d2"} :
          LET o == CASE name = "goal_x_1" -> goal_x_1(walker)
                     [] name = "goal_x_2" -> goal_x_2(walker)
                     [] name = "d1"       -> get_d(imager_1, walker.p1)
                     [] name = "d2"       -> get_d(imager_2, walker.p2)
          IN  frame' = Frame(name, IF o.exc = "none" THEN "returned" ELSE "raised",
                             IF o.exc = "none" THEN <<o.val>> ELSE <<>>, o.exc)
    /\ trace' = <<>>
    /\ UNCHANGED <<source, mirror_1, mirror_2, imager_1, imager_2, walker, built>>
    /\ UNCHANGED <<skyvars, probe>>

\* align(p1, p2, move), up to the loop: a p1 / p2 that is not None replaces
\* the walker's
AlignCall ==
    /\ Idle
    /\ \E a1 \in {NoneP, SomeP(4)}, a2 \in {NoneP, SomeP(6)}, move \in BOOLEAN :
          /\ walker' = [walker EXCEPT !.p1 = IF a1.some THEN a1 ELSE @,
                                      !.p2 = IF a2.some THEN a2 ELSE @]
          /\ frame' = [Frame("align", "loop", <<>>, "none") EXCEPT !.move = move]
    /\ trace' = <<>>
    /\ UNCHANGED <<source, mirror_1, mirror_2, imager_1, imager_2, built>>
    /\ UNCHANGED <<skyvars, probe>>

\* one pass of align's loop
AlignIterate ==
    /\ frame.pc = "loop"
    /\ ~range_done(walker, frame.i)
    /\ \E f1 \in BOOLEAN, f2 \in BOOLEAN, r1 \in NsolveOutcomes, r2 \in NsolveOutcomes :
          LET r == align_body(walker, f1, r1, f2, r2)
          IN  /\ walker' = r.self
              /\ trace' = trace \o r.evs
              /\ frame' = IF r.exc = "none"
                          THEN [frame EXCEPT !.i = @ + 1]
                          ELSE [frame EXCEPT !.pc = "raised", !.exc = r.exc]
    /\ UNCHANGED <<source, mirror_1, mirror_2, imager_1, imager_2, built>>
    /\ UNCHANGED <<skyvars, probe>>

\* align without a move: the loop is over, the estimate is returned
AlignReturn ==
    /\ frame.pc = "loop"
    /\ range_done(walker, frame.i)
    /\ ~move_is_true(frame.move)
    /\ frame' = [frame EXCEPT !.pc = "returned", !.ret = <<walker.alpha_1, walker.alpha_2>>]
    /\ UNCHANGED <<source, mirror_1, mirror_2, imager_1, imager_2, walker, built, trace>>
    /\ UNCHANGED <<skyvars, probe>>

\* _move_mirrors, its first statement: self.mirror_1.alpha = alpha_1.  The
\* device may refuse the command, which raises and leaves the angle
AlignMoveMirror1 ==
    /\ frame.pc = "loop"
    /\ range_done(walker, frame.i)
    /\ move_is_true(frame.move)
    /\ \E fails \in BOOLEAN :
          IF fails
          THEN /\ frame' = [frame EXCEPT !.pc = "raised", !.exc = "DeviceCommandError"]
               /\ trace' = Append(trace, [ev |-> "set_mirror_1", out |-> Raise("DeviceCommandError")])
               /\ UNCHANGED mirror_1
          ELSE /\ frame' = [frame EXCEPT !.pc = "move_2"]
               /\ trace' = Append(trace, [ev |-> "set_mirror_1", out |-> Value(walker.alpha_1)])
               /\ mirror_1' = [mirror_1 EXCEPT !.alpha = walker.alpha_1]
    /\ UNCHANGED <<source, mirror_2, imager_1, imager_2, walker, built>>
    /\ UNCHANGED <<skyvars, probe>>

\* _move_mirrors, its second statement: self.mirror_2.alpha = alpha_2, and
\* align's return
AlignMoveMirror2 ==
    /\ frame.pc = "move_2"
    /\ \E fails \in BOOLEAN :
          IF fails
          THEN /\ frame' = [frame EXCEPT !.pc = "raised", !.exc = "DeviceCommandError"]
               /\ trace' = Append(trace, [ev |-> "set_mirror_2", out |-> Raise("DeviceCommandError")])
               /\ UNCHANGED mirror_2
          ELSE /\ frame' = [frame EXCEPT !.pc = "returned",
                                         !.ret = <<walker.alpha_1, walker.alpha_2>>]
               /\ trace' = Append(trace, [ev |-> "set_mirror_2", out |-> Value(walker.alpha_2)])
               /\ mirror_2' = [mirror_2 EXCEPT !.alpha = walker.alpha_2]
    /\ UNCHANGED <<source, mirror_1, imager_1, imager_2, walker, built>>
    /\ UNCHANGED <<skyvars, probe>>

---------------------------------------------------------------------------
(* The IterWalker and its devices *)

\* z-positions (mirror 1, mirror 2, imager 1, imager 2): an ordinary relay,
\* one whose mirrors share their z, one whose mirror 2 shares imager 1's z
Geometries == { <<1, 2, 3, 4>>, <<2, 2, 3, 4>>, <<1, 3, 3, 4>> }

\* no model walker (None), and a ModelWalker holding the model it was made with
NoWalker   == [some |-> FALSE, model |-> "None"]
MW(model)  == [some |-> TRUE, model |-> model]

\* a key of the kwargs mapping: absent, or present with a value
Absent(none) == [has |-> FALSE, v |-> none]
Present(v)   == [has |-> TRUE, v |-> v]

\* a kwargs mapping with no key
NoKwargs ==
    [p1 |-> Absent(0), p2 |-> Absent(0), model |-> Absent("None"),
     load_model |-> Absent("None"), iter_walker |-> Absent("None"),
     model_walker |-> Absent(NoWalker), model_builder |-> Absent("None")]

\* the Skywalker, the module's names and the probe while something else runs
SkyIdle ==
    /\ sky = [p1 |-> 0, p2 |-> 0, model |-> "None", load_model |-> "None",
              iter_walker |-> "None", model_walker |-> NoWalker,
              model_builder |-> "None"]
    /\ globals = [kwargs |-> [bound |-> FALSE, map |-> NoKwargs],
                  ModelWalker |-> FALSE, IterWalker |-> FALSE]
    /\ monitor = <<0, 0>>
    /\ skcall = [n |-> 0, mode |-> "none", outcome |-> "none", calls |-> <<>>, pre |-> sky]

ProbeIdle ==
    probe = [fn |-> "none", args |-> <<>>, out |-> Value(NonFinite)]

\* IterWalker.__init__ on its devices: the estimates start as the mirrors'
\* angles, p1 and p2 default to None, tan to False
Init ==
    /\ source = [x |-> 1, xp |-> 1]
    /\ \E g \in Geometries, a \in {<<1, 2>>, <<3, 1>>} :
          /\ mirror_1 = [x |-> 0, z |-> g[1], alpha |-> Fin(a[1])]
          /\ mirror_2 = [x |-> 2, z |-> g[2], alpha |-> Fin(a[2])]
          /\ imager_1 = [x |-> 0, z |-> g[3], image_xsz |-> 4, mppix |-> 1, centroid |-> 2]
          /\ imager_2 = [x |-> 0, z |-> g[4], image_xsz |-> 4, mppix |-> 1, centroid |-> 2]
    /\ \E p \in {NoneP, SomeP(1)}, t \in BOOLEAN, n \in 0..MaxN :
          walker = [p1 |-> p, p2 |-> p, tan |-> t, max_n |-> n,
                    alpha_1 |-> mirror_1.alpha, alpha_2 |-> mirror_2.alpha]
    /\ built = <<mirror_1.alpha, mirror_2.alpha>>
    /\ frame = [n |-> 0, op |-> "none", pc |-> "idle", i |-> 0, move |-> FALSE,
                ret |-> <<>>, exc |-> "none",
                pre |-> <<mirror_1.alpha, mirror_2.alpha>>,
                est |-> <<walker.alpha_1, walker.alpha_2>>]
    /\ trace = <<>>
    /\ SkyIdle
    /\ ProbeIdle

Next ==
    \/ Step
    \/ Distance
    \/ ReadProperty
    \/ AlignCall
    \/ AlignIterate
    \/ AlignReturn
    \/ AlignMoveMirror1
    \/ AlignMoveMirror2

Spec == Init /\ [][Next]_vars

---------------------------------------------------------------------------
(* Direct calls of the solver *)

\* the IterWalker and its devices while something else runs
WalkerIdle ==
    /\ source = [x |-> 1, xp |-> 1]
    /\ mirror_1 = [x |-> 0, z |-> 1, alpha |-> Fin(1)]
    /\ mirror_2 = [x |-> 2, z |-> 2, alpha |-> Fin(2)]
    /\ imager_1 = [x |-> 0, z |-> 3, image_xsz |-> 4, mppix |-> 1, centroid |-> 2]
    /\ imager_2 = [x |-> 0, z |-> 4, image_xsz |-> 4, mppix |-> 1, centroid |-> 2]
    /\ walker = [p1 |-> NoneP, p2 |-> NoneP, tan |-> FALSE, max_n |-> 0,
                 alpha_1 |-> mirror_1.alpha, alpha_2 |-> mirror_2.alpha]
    /\ built = <<mirror_1.alpha, mirror_2.alpha>>
    /\ frame = [n |-> 0, op |-> "none", pc |-> "idle", i |-> 0, move |-> FALSE,
                ret |-> <<>>, exc |-> "none",
                pre |-> <<mirror_1.alpha, mirror_2.alpha>>,
                est |-> <<walker.alpha_1, walker.alpha_2>>]
    /\ trace = <<>>

\* the inputs of a direct call: offsets and source, angles and goals, z's
ProbeOffsets == 0..MaxProbe
ProbeSigned  == -MaxProbe..MaxProbe
ProbeZ       == 1..(MaxProbe + 2)

ProbeInit ==
    /\ WalkerIdle
    /\ SkyIdle
    /\ ProbeIdle

\* alpha1(x0, xp0, a2, d2, d4, d5, m1hdx, m2hdx, x) with t=False
ProbeAlpha1 ==
    /\ probe.fn = "none"
    /\ \E x0 \in ProbeOffsets, xp0 \in ProbeOffsets, a \in ProbeSigned,
          d2 \in ProbeZ, d4 \in ProbeZ, d5 \in ProbeZ,
          m1hdx \in ProbeOffsets, m2hdx \in ProbeOffsets, x \in ProbeSigned :
          probe' = [fn |-> "alpha1",
                    args |-> <<x0, xp0, a, d2, d4, d5, m1hdx, m2hdx, x>>,
                    out |-> alpha1(x0, xp0, Fin(a), d2, d4, d5, m1hdx, m2hdx, x,
                                   FALSE, Raise("SolverError"))]
    /\ UNCHANGED <<iwvars, skyvars>>

\* alpha2(x0, xp0, a1, d2, d4, d6, m1hdx, m2hdx, x) with t=False
ProbeAlpha2 ==
    /\ probe.fn = "none"
    /\ \E x0 \in ProbeOffsets, xp0 \in ProbeOffsets, a \in ProbeSigned,
          d2 \in ProbeZ, d4 \in ProbeZ, d6 \in ProbeZ,
          m1hdx \in ProbeOffsets, m2hdx \in ProbeOffsets, x \in ProbeSigned :
          probe' = [fn |-> "alpha2",
                    args |-> <<x0, xp0, a, d2, d4, d6, m1hdx, m2hdx, x>>,
                    out |-> alpha2(x0, xp0, Fin(a), d2, d4, d6, m1hdx, m2hdx, x,
                                   FALSE, Raise("SolverError"))]
    /\ UNCHANGED <<iwvars, skyvars>>

ProbeNext ==
    \/ ProbeAlpha1
    \/ ProbeAlpha2

ProbeSpec == ProbeInit /\ [][ProbeNext]_vars

---------------------------------------------------------------------------
(* skywalker.py: Skywalker *)

\* the number of walk() calls in a run
MaxWalks == 2

\* The methods of Skywalker read the name kwargs, which is no parameter or
\* local of theirs and which the module never binds: the lookup goes to the
\* module's globals and raises NameError unless the embedding program has
\* bound the name there.  ModelWalker and IterWalker are read the same way
\* and are not imported either.
Bound(name) ==
    CASE name = "kwargs"      -> globals.kwargs.bound
      [] name = "ModelWalker" -> globals.ModelWalker
      [] name = "IterWalker"  -> globals.IterWalker

\* kwargs.get(key, default)
kwargs_get(key, default) ==
    IF globals.kwargs.map[key].has THEN globals.kwargs.map[key].v ELSE default

\* a method's progress: the object, the calls made on its collaborators so
\* far, and the exception that ended it ("none" while it runs)
Running(self, calls) == [self |-> self, calls |-> calls, exc |-> "none"]
Raised(self, calls, e) == [self |-> self, calls |-> calls, exc |-> e]

\* a call on a collaborator: its name, the do_move and model arguments
\* ("absent" when not passed; for a constructor, _load or build() the model
\* passed or returned), the model walker it is made on, and whether it
\* reaches a device
Call(fn, do_move, model, on, io) ==
    [fn |-> fn, do_move |-> do_move, model |-> model, on |-> on, io |-> io]

\* Python's truth value of load_model: None is false, a module name is true
Truthy(v) == v # "None"

\* _load(saved_model): imports pswalker.models.<saved_model>, takes its
\* get_model() and sets the goal points on it
load(saved_model) == "Loaded"

\* "self._converged" in _iterwalk's loop condition: the method is not
\* called, and a bound method is true
converged_attribute(self) == TRUE

\* _iterwalk()
iterwalk(self, calls) ==
    IF ~Bound("kwargs") THEN Raised(self, calls, "NameError")
    ELSE
    LET s1 == [self EXCEPT !.iter_walker = kwargs_get("iter_walker", @)]
    IN  IF s1.iter_walker = "None" /\ ~Bound("IterWalker")
        THEN Raised(s1, calls, "NameError")
        ELSE IF s1.iter_walker = "None"
        \* IterWalker(self.walker, self.monitor, p1=, p2=): iterwalk.py's
        \* __init__ takes five devices
        THEN Raised(s1, Append(calls, Call("IterWalker", FALSE, "absent", NoWalker, FALSE)), "TypeError")
        ELSE IF ~converged_attribute(s1)
        \* the loop body: step(mirror_1=True), a keyword step() does not take
        THEN Raised(s1, Append(calls, Call("iter_walker.step", FALSE, "absent", NoWalker, FALSE)), "TypeError")
        ELSE Running(s1, calls)

\* _modelwalk()
modelwalk(self, calls) ==
    IF ~Bound("kwargs") THEN Raised(self, calls, "NameError")
    ELSE
    LET s1 == [self EXCEPT !.model = kwargs_get("model", @),
                           !.load_model = kwargs_get("load_model", @),
                           !.model_walker = kwargs_get("model_walker", @)]
        s2 == IF Truthy(s1.load_model)
              THEN [s1 EXCEPT !.model = load(s1.load_model)]
              ELSE s1
        c2 == IF Truthy(s1.load_model)
              THEN Append(calls, Call("_load", FALSE, s2.model, NoWalker, FALSE))
              ELSE calls
        s3 == [s2 EXCEPT !.model_walker = MW(s2.model)]
        c3 == Append(c2, Call("ModelWalker", FALSE, s2.model, NoWalker, FALSE))
    IN  IF ~Truthy(s1.load_model) /\ s1.model = "None"
        THEN Raised(s1, calls, "CNCException")
        ELSE IF ~s2.model_walker.some /\ ~Bound("ModelWalker")
        THEN Raised(s2, c2, "NameError")
        ELSE IF ~s2.model_walker.some
        THEN Running(s3, Append(c3, Call("model_walker.step", TRUE, "absent", s3.model_walker, TRUE)))
        ELSE Running(s2, Append(c2, Call("model_walker.step", TRUE, "absent", s2.model_walker, TRUE)))

\* _modelbuild()
modelbuild(self, calls) ==
    IF ~Bound("kwargs") THEN Raised(self, calls, "NameError")
    ELSE
    LET s1 == [self EXCEPT !.model_builder = kwargs_get("model_builder", @)]
        s2 == IF s1.model_builder = "None"
              THEN [s1 EXCEPT !.model_builder = "ModelBuilder"]
              ELSE s1
        s3 == [s2 EXCEPT !.model = "Built"]
        c3 == Append(calls, Call("model_builder.build", FALSE, "Built", NoWalker, TRUE))
        s4 == [s3 EXCEPT !.model_walker = MW(s3.model)]
        c4 == Append(c3, Call("ModelWalker", FALSE, s3.model, NoWalker, FALSE))
    IN  IF ~s3.model_walker.some /\ ~Bound("ModelWalker")
        THEN Raised(s3, c3, "NameError")
        ELSE IF ~s3.model_walker.some
        THEN Running(s4, Append(c4, Call("model_walker.step", TRUE, s4.model, s4.model_walker, TRUE)))
        ELSE Running(s3, Append(c3, Call("model_walker.step", TRUE, s3.model, s3.model_walker, TRUE)))

\* walk(mode)
walk(self, mode) ==
    IF ~Bound("kwargs") THEN Raised(self, <<>>, "NameError")
    ELSE
    LET s1 == [self EXCEPT !.p1 = kwargs_get("p1", 0),
                           !.p2 = kwargs_get("p2", 0),
                           !.model = kwargs_get("model", @),
                           !.load_model = kwargs_get("load_model", @),
                           !.iter_walker = kwargs_get("iter_walker", @),
                           !.model_walker = kwargs_get("model_walker", @),
                           !.model_builder = kwargs_get("model_builder", @)]
    IN  CASE mode = "iter"  -> iterwalk(s1, <<>>)
          [] mode = "model" -> modelwalk([s1 EXCEPT !.load_model = kwargs_get("load_model", @)], <<>>)
          [] mode = "build" -> modelbuild(s1, <<>>)
          [] mode = "auto"  -> Raised(s1, <<>>, "NotImplementedError")
          [] OTHER          -> Raised(s1, <<>>, "CNCException")

\* the mode strings a caller may pass: the four of the dispatcher and one
\* outside them
Modes == {"iter", "model", "build", "auto", "fast"}

\* the kwargs mappings an embedding program may have bound
KwargsMaps ==
    { NoKwargs,
      [NoKwargs EXCEPT !.load_model = Present("saved")],
      [NoKwargs EXCEPT !.model = Present("Given")] }

\* Skywalker.__init__: each collaborator is the keyword given, or None; the
\* module's globals are as shipped (nothing bound) or as an embedding
\* program has set them
SkyInit ==
    /\ WalkerIdle
    /\ ProbeIdle
    /\ \E m \in {"None", "Model"}, l \in {"None", "saved"}, iw \in {"None", "IterWalker"},
          mw \in {NoWalker, MW("Other")}, mb \in {"None", "Builder"} :
          sky = [p1 |-> 0, p2 |-> 0, model |-> m, load_model |-> l,
                 iter_walker |-> iw, model_walker |-> mw, model_builder |-> mb]
    /\ \/ globals = [kwargs |-> [bound |-> FALSE, map |-> NoKwargs],
                     ModelWalker |-> FALSE, IterWalker |-> FALSE]
       \/ \E k \in KwargsMaps, b1 \in BOOLEAN, b2 \in BOOLEAN :
             globals = [kwargs |-> [bound |-> TRUE, map |-> k],
                        ModelWalker |-> b1, IterWalker |-> b2]
    /\ monitor \in {<<0, 0>>, <<5, 5>>}
    /\ skcall = [n |-> 0, mode |-> "none", outcome |-> "none", calls |-> <<>>, pre |-> sky]

\* a call of walk(mode)
Walk ==
    /\ skcall.n < MaxWalks
    /\ \E mode \in Modes :
          LET r == walk(sky, mode)
          IN  /\ sky' = r.self
              /\ skcall' = [n |-> skcall.n + 1, mode |-> mode,
                            outcome |-> IF r.exc = "none" THEN "returned" ELSE r.exc,
                            calls |-> r.calls, pre |-> sky]
    /\ UNCHANGED <<globals, monitor>>
    /\ UNCHANGED <<iwvars, probe>>

SkyNext == Walk

SkySpec == SkyInit /\ [][SkyNext]_vars

---------------------------------------------------------------------------
(* Claims about the IterWalker *)

\* the last call was align and it has returned
AlignReturned == frame.op = "align" /\ frame.pc = "returned"

\* the events of the call's trace that are geometry solves
Solves == { k \in 1..Len(trace) : trace[k].ev \in {"alpha1", "alpha2"} }

\* C1: only align called with move=True writes a mirror angle: every step of
\* step(), distance(), a goal_x / d1 / d2 read or align(move=False) leaves
\* both mirrors' angles as they were.
C1_OnlyCommittingAlignWrites ==
    [][ (frame'.op # "align" \/ ~frame'.move)
            => /\ mirror_1'.alpha = mirror_1.alpha
               /\ mirror_2'.alpha = mirror_2.alpha ]_vars

\* C1's case: an align(move=False) has refined the estimate away from the
\* mirrors' angles and returned it, and the mirrors are where they were
C1_Witness ==
    /\ AlignReturned /\ ~frame.move
    /\ walker.max_n > 0
    /\ frame.ret[1] # mirror_1.alpha
    /\ frame.ret[2] # mirror_2.alpha
    /\ <<mirror_1.alpha, mirror_2.alpha>> = frame.pre

\* C2: an align(move=True) that completes has run exactly max_n passes (solve
\* of mirror 1, then of mirror 2), then written mirror 1 and mirror 2 once
\* each, after the last pass; the pair written is the last pass's pair and is
\* the pair returned.
C2_CommitOnceAfterFullBudget ==
    (AlignReturned /\ frame.move) =>
        LET n == walker.max_n IN
        /\ frame.i = n
        /\ Len(trace) = 2 * n + 2
        /\ \A k \in 1..n : trace[2*k - 1].ev = "alpha1" /\ trace[2*k].ev = "alpha2"
        /\ trace[2*n + 1] = [ev |-> "set_mirror_1", out |-> Value(frame.ret[1])]
        /\ trace[2*n + 2] = [ev |-> "set_mirror_2", out |-> Value(frame.ret[2])]
        /\ <<mirror_1.alpha, mirror_2.alpha>> = frame.ret
        /\ n > 0 => frame.ret = <<trace[2*n - 1].out.val, trace[2*n].out.val>>

\* C2's case: a committing align with a budget of two whose first pass already
\* reached the pair the second pass returns: it ran both passes, and moved
C2_Witness ==
    /\ AlignReturned /\ frame.move
    /\ walker.max_n = 2 /\ ~walker.tan
    /\ Len(trace) = 6
    /\ trace[1].out = trace[3].out
    /\ trace[2].out = trace[4].out
    /\ frame.ret # frame.pre

\* C3 as claimed: an align(move=True) that ends with an error has changed
\* neither mirror's angle.
C3_NoPartialCommit ==
    (frame.op = "align" /\ frame.move /\ frame.pc = "raised") =>
        <<mirror_1.alpha, mirror_2.alpha>> = frame.pre

\* C5 as claimed: the second component of step()'s result is alpha2 evaluated
\* at the first component (closed form).
C5_StepUsesFreshAlpha1 ==
    (frame.op = "step" /\ frame.pc = "returned" /\ ~walker.tan) =>
        frame.ret[2] =
            alpha_2_calc([walker EXCEPT !.alpha_1 = frame.ret[1]], FALSE,
                         Raise("SolverError")).val

\* C6: with max_n = 0 align makes no solve and returns the pair the walker
\* was constructed with, which is the estimate it held before the call, for
\* any p1, p2 and either value of move.
C6_ZeroBudgetReturnsInitialPair ==
    (AlignReturned /\ walker.max_n = 0) =>
        /\ frame.ret = frame.est
        /\ frame.ret = built
        /\ Solves = {}
        /\ frame.i = 0

\* C6's case: a committing align with max_n = 0, p1 None and p2 given, has
\* returned
C6_Witness ==
    /\ AlignReturned /\ walker.max_n = 0
    /\ frame.move
    /\ ~walker.p1.some /\ walker.p2.some

\* C12 as claimed: the first solve of a step() or align() call (the solve of
\* mirror 1, closed form) starts from mirror 2's angle as it is when the call
\* is made.
C12_FirstSolveFromCurrentAngle ==
    (/\ frame.op \in {"step", "align"}
     /\ ~walker.tan
     /\ Len(trace) >= 1
     /\ trace[1].ev = "alpha1"
     /\ trace[1].out.exc = "none") =>
        trace[1].out =
            alpha_1_calc([walker EXCEPT !.alpha_2 = frame.pre[2]], FALSE,
                         Raise("SolverError"))

\* the events of the call's trace that are committed writes of a mirror angle
Writes ==
    { k \in 1..Len(trace) : /\ trace[k].ev \in {"set_mirror_1", "set_mirror_2"}
                            /\ trace[k].out.exc = "none" }

\* C13 as claimed: an align(move=True) that has returned has, after each
\* write of a mirror angle and before anything else, read that mirror's
\* blocking signal and found the mirror settled.
C13_PollsSettleAfterWrite ==
    (AlignReturned /\ frame.move) =>
        \A k \in Writes :
            /\ k < Len(trace)
            /\ \/ /\ trace[k].ev = "set_mirror_1"
                  /\ trace[k + 1].ev = "mirror_1.blocking"
                  /\ ~blocking(mirror_1)
               \/ /\ trace[k].ev = "set_mirror_2"
                  /\ trace[k + 1].ev = "mirror_2.blocking"
                  /\ ~blocking(mirror_2)

---------------------------------------------------------------------------
(* Claims about the solver *)

\* a direct closed-form call has been made
Probed == probe.fn # "none"

---------------------------------------------------------------------------
(* Claims about the Skywalker *)

\* the model and the load request a walk() call starts from: the keyword in
\* kwargs if there is one, else the object's
ModelAtCall ==
    IF globals.kwargs.bound /\ globals.kwargs.map.model.has
    THEN globals.kwargs.map.model.v ELSE skcall.pre.model
LoadAtCall ==
    IF globals.kwargs.bound /\ globals.kwargs.map.load_model.has
    THEN globals.kwargs.map.load_model.v ELSE skcall.pre.load_model

\* the calls of the last walk() that touch a device, and its model-steps
DeviceCalls == { k \in 1..Len(skcall.calls) : skcall.calls[k].io }
ModelSteps  == { k \in 1..Len(skcall.calls) : skcall.calls[k].fn = "model_walker.step" }

\* C4 as claimed: walk(mode='model') with no model and no load request raises
\* the no-model error, a mode outside {iter, model, build, auto} raises the
\* configuration error (both are CNCException in the source), and no device
\* call has been made when the error is raised.
C4_InvalidRequestRejectedBeforeIO ==
    /\ (skcall.mode = "model" /\ ModelAtCall = "None" /\ ~Truthy(LoadAtCall))
           => (skcall.outcome = "CNCException" /\ DeviceCalls = {})
    /\ (skcall.mode = "fast")
           => (skcall.outcome = "CNCException" /\ DeviceCalls = {})

\* C7 as claimed: a walk in iter mode that returns normally leaves the
\* observed centroid pair equal to (p1, p2).
C7_IterReturnsOnlyConverged ==
    (skcall.mode = "iter" /\ skcall.outcome = "returned") =>
        monitor = <<sky.p1, sky.p2>>

\* C8 as claimed: walk(mode='model') with a model available or a load
\* request returns after exactly one model-step, made with the move enabled.
C8_ModelModeOneCommittedStep ==
    (skcall.mode = "model" /\ (ModelAtCall # "None" \/ Truthy(LoadAtCall))) =>
        /\ skcall.outcome = "returned"
        /\ Cardinality(ModelSteps) = 1
        /\ \A k \in ModelSteps : skcall.calls[k].do_move

\* C9 as claimed: walk(mode='build') calls build() first and then makes
\* exactly one model-step, with the move enabled and with the model build()
\* returned; nothing that moves a mirror precedes the build.
C9_BuildThenOneCommittedStep ==
    (skcall.mode = "build") =>
        /\ skcall.outcome = "returned"
        /\ Len(skcall.calls) >= 2
        /\ skcall.calls[1].fn = "model_builder.build"
        /\ Cardinality(ModelSteps) = 1
        /\ \A k \in ModelSteps :
              /\ skcall.calls[k].do_move
              /\ k > 1
              /\ skcall.calls[k].model = skcall.calls[1].model

\* the model a model-step is performed with: the model argument when one is
\* passed, else the model the walker it is made on was constructed with
StepModel(c) == IF c.model # "absent" THEN c.model ELSE c.on.model

\* C14 as claimed: every model-step of a walk(mode='model') call is performed
\* with the model that call selected (the loaded model when a load is
\* requested, else the available model), whatever calls came before; the
\* case of a model walker the caller supplied at construction is left out.
C14_ModelStepUsesSelectedModel ==
    (skcall.mode = "model" /\ skcall.pre.model_walker # MW("Other")) =>
        \A k \in ModelSteps :
            /\ skcall.calls[k].do_move
            /\ StepModel(skcall.calls[k]) = sky.model
            /\ sky.model = IF Truthy(LoadAtCall) THEN load(LoadAtCall) ELSE ModelAtCall

====
